---- MODULE Spec2Model ----
(***************************************************************************)
(* Lua sandbox of Automata Wallet: the host-side manager (LuaSandbox,      *)
(* lib/lua-sandbox.ts) and the Web Worker that hosts the wasmoon engine    *)
(* (workers/lua-sandbox.worker.ts), with the two message queues between    *)
(* them, the manager's outer timers, the worker's inner timers and a       *)
(* discrete clock.                                                         *)
(*                                                                         *)
(* Granularity.  A worker message handler runs without interruption up to  *)
(* its next await of an external promise (luaFactory.createEngine, or the  *)
(* Promise.race on a script that has yielded to the event loop); awaits of *)
(* the repository's own await-free async functions (registerMockAPIs) are  *)
(* microtask continuations and are part of the same step.  A script that   *)
(* computes synchronously occupies the worker's event loop: no message is  *)
(* handled and no worker timer fires until it returns.                     *)
(*                                                                         *)
(* Engines are not named: the worker's current engine is luaEngine, and a   *)
(* handler remembers whether the engine its script was evaluated in is     *)
(* still the current one, has been closed, or has been overwritten without *)
(* being closed ("leaked").                                                *)
(*                                                                         *)
(* Time.  The clock advances in steps of OuterBuffer milliseconds.  Message *)
(* delivery, engine creation and due timers are fast with respect to one   *)
(* clock step (the clock does not advance while one of them is enabled);   *)
(* synchronous computation of "busy"/"loop" scripts and the resumption of  *)
(* a yielded script take arbitrary time.                                   *)
(*                                                                         *)
(* Faults.  A luaEngine.global.set of registerMockAPIs may throw for the    *)
(* calls the workload marks (FailingCall), and luaFactory.createEngine may *)
(* reject, at most MaxCreateFail times, in the workloads of FaultyRuns.    *)
(*                                                                         *)
(* Script storage.  MockStorageAPI (lib/lua-api-mock.ts) is modelled beside *)
(* the sandbox, with its own next-state relation (StorageSpec): the Map,   *)
(* the calls suspended at their delay, and the history of completed calls. *)
(***************************************************************************)
EXTENDS Integers, Sequences, FiniteSets, TLC

\* ------------------------------------------------------------------ bounds
MaxExec == 2      \* execute() calls per behaviour
MaxCrash == 1     \* worker crashes (onerror events) per behaviour
MaxTime == 400    \* last clock value (ms)
MaxOps == 4       \* calls of the storage capability per behaviour
MaxCreateFail == 1   \* createEngine calls that reject per behaviour

\* ------------------------------------------------------- program constants
OuterBuffer == 100   \* "timeout + 100": buffer added to the worker timeout

Timeouts == {100}    \* values of options.timeout submitted by the host

\* ------------------------------------------------------------ value domains
NoId == <<0, 0>>

\* an id made of the timestamp alone
MakeId_TimestampOnly(counter, t) == <<1, t>>

\* `exec-${++this.executionCounter}-${Date.now()}`
MakeId(counter, t) == <<counter, t>>

Reserved == {"wallet", "network", "print"}
GlobalNames == {"x", "tostring"} \cup Reserved

\* Guest scripts, by what they do when evaluated:
\*   kind  ok      returns synchronously          (return 2 + 2)
\*         error   raises synchronously           (error("..."))
\*         syntax  does not load                  (return 2 +)
\*         loop    computes forever               (while true do ... end)
\*         busy    computes for a long time, then returns
\*         yield   yields to the event loop (coroutine.yield at top level)
\*                 and settles later, or never
\*   w     the global it assigns ("none": no assignment)
\*   r     the global whose value it returns ("none": returns a literal)
NoScript == [kind |-> "none", w |-> "none", r |-> "none"]
Script(kind, w, r) == [kind |-> kind, w |-> w, r |-> r]

\* options.context: a map from keys to values; a value is plain data or a
\* function (or an object holding functions).
EmptyCtx == [k \in {} |-> "data"]

\* one call of execute: the script and the options other than timeout
\* regFail: 0, or the number k of the luaEngine.global.set call of
\* registerMockAPIs (1 wallet, 2 network, 3 print) that throws when the
\* worker registers the capabilities for this call
Call(code, ctx, includeAPIs) ==
    [code |-> code, ctx |-> ctx, includeAPIs |-> includeAPIs, regFail |-> 0]
FailingCall(code, k) == [Call(code, EmptyCtx, FALSE) EXCEPT !.regFail = k]
Plain(kind) == Call(Script(kind, "none", "none"), EmptyCtx, FALSE)
Assign(kind, n) == Call(Script(kind, n, "none"), EmptyCtx, FALSE)
Read(n) == Call(Script("ok", "none", n), EmptyCtx, FALSE)

\* The sequences of execute calls a host makes: every kind of script alone,
\* and the pairs and triples in which one execution can affect the next.
Workloads ==
    { <<Plain(k)>> : k \in {"ok", "error", "syntax", "loop", "busy", "yield"} }
    \cup { <<Plain(k), Plain("ok")>> :
              k \in {"ok", "error", "syntax", "loop", "busy", "yield"} }
    \cup { <<Plain("ok"), Plain("loop")>>, <<Plain("yield"), Plain("error")>>,
           <<Plain("error"), Plain("yield")>> }
    \cup { <<Assign(k, n), Read(n)>> : k \in {"ok", "error"}, n \in {"x", "tostring"} }
    \cup { <<Assign("ok", "wallet"), Read("wallet")>> }
    \cup { <<Call(Script("ok", "none", n), n :> "data", FALSE), Read(n)>> :
              n \in {"x", "wallet"} }
    \cup { <<Call(Script("ok", "none", "none"), EmptyCtx, TRUE), Plain("ok")>>,
           <<Call(Script("ok", "none", "none"), "cb" :> "function", FALSE)>>,
           <<Call(Script("ok", "none", "wallet"), "wallet" :> "data", TRUE)>> }
    \cup { <<FailingCall(Script("ok", "x", "none"), k), Read("x")>> : k \in 1..3 }
    \cup { <<Assign("ok", "network"), FailingCall(Script("ok", "none", "network"), 2)>>,
           <<Assign("ok", "network"), FailingCall(Script("ok", "none", "none"), 2),
             Read("network")>> }
    \cup { <<Plain("ok"), Plain("ok"), Plain("ok")>>,
           <<Plain("loop"), Plain("ok"), Plain("ok")>>,
           <<Plain("error"), Assign("ok", "x"), Read("x")>> }

\* the workloads during which a createEngine call may reject
FaultyRuns ==
    { <<Plain(k)>> : k \in {"ok", "error", "yield"} }
    \cup { <<Plain(k), Plain("ok")>> : k \in {"ok", "error", "yield"} }

\* prepareAPIForLua: five tables of closures
prepareAPIForLua ==
    [k \in {"wallet", "contract", "network", "http", "storage"} |-> "function"]

\* { ...luaAPIs, ...context }: the right operand wins
Spread(a, b) ==
    [k \in (DOMAIN a) \cup (DOMAIN b) |-> IF k \in DOMAIN b THEN b[k] ELSE a[k]]

\* let context = options.context || {}; if (includeAPIs) context = {...luaAPIs, ...context}
MergedContext(ctx, includeAPIs) ==
    IF includeAPIs THEN Spread(prepareAPIForLua, ctx) ELSE ctx

\* structured clone refuses a function anywhere in the message
Cloneable(ctx) == \A k \in DOMAIN ctx : ctx[k] # "function"

\* error strings
ErrOuterTimeout == "Execution timeout after <timeout>ms"
ErrInnerTimeout == "Script execution timeout after <timeout>ms"
ErrRuntime == "runtime error"
ErrSyntax == "syntax error"
ErrCrashed == "Worker crashed"
ErrDestroyed == "Sandbox destroyed"
ErrClone == "DataCloneError"
ErrRegistration == "registration error"
ErrCreate == "createEngine error"
ErrTerminated(reason) ==
    CASE reason = "timeout" -> "Execution terminated: timeout"
      [] reason = "manual" -> "Execution terminated: manual"
      [] OTHER -> "Execution terminated: memory-limit"

ContainsTimeout(e) ==
    e \in {ErrOuterTimeout, ErrInnerTimeout, ErrTerminated("timeout")}

VARIABLES
    \* ---- manager (LuaSandbox)
    worker,             \* 0: this.worker === null; n > 0: the n-th Worker object
    isInitialized,
    executionCounter,
    pendingExecutions,  \* keys of the pendingExecutions map
    outerTimers,        \* armed setTimeout handles of execute: [id, at]
    \* ---- the callers' view
    workload,           \* the execute calls the host makes, in order
    promise,            \* id -> state of the promise returned by execute
    settleCalls,        \* id -> number of resolve/reject calls made by the manager
    request,            \* id -> the message handed to postMessage
    \* ---- transport
    inbox,              \* messages posted to the worker, not yet handled
    outbox,             \* responses posted by the worker, not yet handled
    \* ---- worker
    luaEngine,          \* the current engine (st = "null": luaEngine === null)
    leaked,             \* engines overwritten in luaEngine without being closed
    currentExecutionId,
    executionStartTime,
    handlers,           \* message handlers suspended at an await
    running,            \* the handler whose script occupies the event loop
    innerTimers,        \* armed setTimeout handles of executeLuaScript: [id, at]
    \* ---- environment
    now,
    crashes,
    createFailures,     \* the createEngine calls that have rejected so far
    \* ---- script storage (MockStorageAPI)
    storage,            \* the Map: key -> value, Undefined for a key it lacks
    delayed,            \* calls suspended at "await this.delay(10)", oldest first
    applied,            \* the set, remove and clear calls completed so far, in order
    returned,           \* the get calls completed so far, each with its result
    opCount             \* number of storage calls made

mgrVars == <<worker, isInitialized, executionCounter, pendingExecutions, outerTimers>>
callerVars == <<workload, promise, settleCalls, request>>
workerVars == <<luaEngine, leaked, currentExecutionId, executionStartTime,
                handlers, running, innerTimers>>
storageVars == <<storage, delayed, applied, returned, opCount>>
sandboxVars == <<worker, isInitialized, executionCounter, pendingExecutions, outerTimers,
                 workload, promise, settleCalls, request, inbox, outbox,
                 luaEngine, leaked, currentExecutionId, executionStartTime,
                 handlers, running, innerTimers, now, crashes, createFailures>>
vars == <<worker, isInitialized, executionCounter, pendingExecutions, outerTimers,
          workload, promise, settleCalls, request, inbox, outbox,
          luaEngine, leaked, currentExecutionId, executionStartTime,
          handlers, running, innerTimers, now, crashes, createFailures,
          storage, delayed, applied, returned, opCount>>

\* ------------------------------------------------------------------ records
NoMsg == [type |-> "none", id |-> NoId, script |-> NoScript, timeout |-> 0,
          context |-> EmptyCtx, reason |-> "none"]

ExecuteScriptMessage(id, code, timeout, context) ==
    [type |-> "execute", id |-> id, script |-> code, timeout |-> timeout,
     context |-> context, reason |-> "none"]

TerminateMessage(id, reason) ==
    [type |-> "terminate", id |-> id, script |-> NoScript, timeout |-> 0,
     context |-> EmptyCtx, reason |-> reason]

\* The last two fields are not part of the message; they record, at the
\* moment of posting, what has become of the engine the script was evaluated
\* in (eng) and whether luaEngine is an open engine in which no script has
\* been evaluated (fresh).
ExecuteResultMessage(id, result, executionTime, eng, fresh) ==
    [id |-> id, success |-> TRUE, result |-> result, error |-> "none",
     executionTime |-> executionTime, eng |-> eng, fresh |-> fresh]

ExecuteErrorMessage(id, error, executionTime, eng, fresh) ==
    [id |-> id, success |-> FALSE, result |-> "none", error |-> error,
     executionTime |-> executionTime, eng |-> eng, fresh |-> fresh]

\* The state of a promise returned by execute.  from: the id of the worker
\* message it was resolved with (NoId: none); at: the time of settlement;
\* calls: the number of execute calls made before the settlement.
PendingPromise == [st |-> "pending", success |-> FALSE, result |-> "none",
                   error |-> "none", executionTime |-> 0, from |-> NoId,
                   at |-> 0, calls |-> 0]

Resolved(success, result, error, executionTime, from, t, n) ==
    [st |-> "resolved", success |-> success, result |-> result, error |-> error,
     executionTime |-> executionTime, from |-> from, at |-> t, calls |-> n]

Rejected(error, t, n) ==
    [st |-> "rejected", success |-> FALSE, result |-> "none", error |-> error,
     executionTime |-> 0, from |-> NoId, at |-> t, calls |-> n]

\* eng: "none" (no script evaluated yet), "current", "closed" or "leaked";
\* late: the promise of doString has settled after the race was decided
NoHandler == [h |-> "none", msg |-> NoMsg, pc |-> "none", start |-> 0,
              eng |-> "none", err |-> "none", res |-> "none", late |-> FALSE]
StartupHandler == [NoHandler EXCEPT !.h = "startup", !.pc = "create"]

Allocated == DOMAIN promise

\* ------------------------------------------------------------- Lua engines
FreshGlobals == [n \in GlobalNames |-> IF n = "tostring" THEN "std" ELSE "nil"]
NullEngine == [st |-> "null", used |-> FALSE, g |-> FreshGlobals]
FreshEngine == [st |-> "open", used |-> FALSE, g |-> FreshGlobals]

\* The worker's engines and suspended handlers as one value:
\* e = luaEngine, lk = leaked, hs = handlers.
WState(e, lk, hs) == [e |-> e, lk |-> lk, hs |-> hs]

\* what becomes of the handlers' engine when luaEngine is closed or overwritten
Retire(hs, as) == { IF h.eng = "current" THEN [h EXCEPT !.eng = as] ELSE h : h \in hs }

\* a registration that binds only the names that are still unbound
registerMockAPIs_OnlyUnbound(W) ==
    IF W.e.st = "null" THEN W
    ELSE [W EXCEPT !.e.g = [n \in GlobalNames |->
                               IF n \in Reserved /\ @[n] = "nil" THEN "cap" ELSE @[n]]]

\* registerMockAPIs: global.set of wallet, network and print
registerMockAPIs(W) ==
    IF W.e.st = "null" THEN W
    ELSE [W EXCEPT !.e.g = [n \in GlobalNames |->
                               IF n \in Reserved THEN "cap" ELSE @[n]]]

\* registerMockAPIs whose k-th global.set throws: the names before it are
\* bound anew, the others keep what they were bound to
registerMockAPIsUpTo(W, k) ==
    LET bound == CASE k = 1 -> {}
                   [] k = 2 -> {"wallet"}
                   [] OTHER -> {"wallet", "network"}
    IN  IF W.e.st = "null" THEN W
        ELSE [W EXCEPT !.e.g = [n \in GlobalNames |->
                                   IF n \in bound THEN "cap" ELSE @[n]]]

\* initializeLua after its createEngine has resolved: luaEngine = <new engine>;
\* global.set('__workerContext', true); await registerMockAPIs()
initializeLua(W) ==
    registerMockAPIs(
        IF W.e.st = "open"
        THEN WState(FreshEngine, W.lk + 1, Retire(W.hs, "leaked"))
        ELSE WState(FreshEngine, W.lk, W.hs))

\* resetLuaEngine up to its await: luaEngine.global.close(); luaEngine = null
CloseEngine(W) ==
    IF W.e.st = "null" THEN W
    ELSE WState(NullEngine, W.lk, Retire(W.hs, "closed"))

\* the context loop without "Don't overwrite our API registrations"
InjectContext_Unguarded(W, ctx) ==
    [W EXCEPT !.e.g = [n \in GlobalNames |->
                          IF n \in DOMAIN ctx THEN "ctx" ELSE @[n]]]

\* the context loop of executeLuaScript
InjectContext(W, ctx) ==
    [W EXCEPT !.e.g = [n \in GlobalNames |->
                          IF n \in DOMAIN ctx /\ n \notin Reserved
                          THEN "ctx" ELSE @[n]]]

\* luaEngine.doString(code): the assignment the script makes
DoString(W, s) ==
    IF s.kind = "syntax" THEN W
    ELSE [W EXCEPT !.e.used = TRUE,
                   !.e.g = IF s.w = "none" THEN @ ELSE [@ EXCEPT ![s.w] = "guest"]]

\* the value a script returns
ScriptResult(W, s) ==
    IF s.r = "none" THEN "literal" ELSE W.e.g[s.r]

\* luaEngine is an open engine in which no script has been evaluated
IsFresh(e) == e.st = "open" /\ ~e.used

\* ---------------------------------------------------------- script storage
\* keys and values passed to the storage capability.  "null" is JavaScript's
\* null; "cyclic" is a value JSON.stringify throws on; Undefined is what
\* Map.get returns for a key the Map lacks (it is not passed as a value).
Keys == {"k1", "k2"}
Values == {"a", "b", "null", "cyclic"}
Undefined == "undefined"

\* private storage = new Map<string, unknown>()
EmptyMap == [k \in Keys |-> Undefined]

\* JSON.stringify(value) throws
StringifyThrows(value) == value = "cyclic"

\* x ?? null
OrNull(x) == IF x \in {Undefined, "null"} THEN "null" ELSE x

\* a storage call: op is "get", "set", "remove" or "clear"
StorageOp(op, key, value) == [op |-> op, key |-> key, value |-> value]

\* the state of a MockStorageAPI after construction, with no call made
StorageInit ==
    /\ storage = EmptyMap
    /\ delayed = <<>>
    /\ applied = <<>>
    /\ returned = {}
    /\ opCount = 0

\* ------------------------------------------------------------------- Init
\* new LuaSandbox(): initializeWorker has created the first Worker, whose
\* module body has called initializeLua() and awaits createEngine.
Init ==
    /\ worker = 1
    /\ isInitialized = TRUE
    /\ executionCounter = 0
    /\ pendingExecutions = {}
    /\ outerTimers = {}
    /\ workload \in {w \in Workloads : Len(w) <= MaxExec}
    /\ promise = [i \in {} |-> PendingPromise]
    /\ settleCalls = [i \in {} |-> 0]
    /\ request = [i \in {} |-> NoMsg]
    /\ inbox = <<>>
    /\ outbox = <<>>
    /\ luaEngine = NullEngine
    /\ leaked = 0
    /\ currentExecutionId = NoId
    /\ executionStartTime = 0
    /\ handlers = {StartupHandler}
    /\ running = NoHandler
    /\ innerTimers = {}
    /\ now = 0
    /\ crashes = 0
    /\ createFailures = 0
    /\ StorageInit

\* ------------------------------------------------------------ the manager
\* the buffer added twice
OuterTimerDelay_Late(timeout) == timeout + 2 * OuterBuffer

\* setTimeout(..., timeout + 100)
OuterTimerDelay(timeout) == timeout + OuterBuffer

\* the promise after a call of its resolve or reject: it keeps its first
\* settlement
Settled(p, outcome) == IF p.st = "pending" THEN outcome ELSE p

\* a call of resolve or reject of the promise of id
SettleOne(id, outcome) ==
    /\ promise' = [promise EXCEPT ![id] = Settled(@, outcome)]
    /\ settleCalls' = [settleCalls EXCEPT ![id] = @ + 1]

\* pending.reject(new Error(error)) for every entry of the map
RejectAllPending(error) ==
    /\ promise' = [i \in DOMAIN promise |->
                      IF i \in pendingExecutions
                      THEN Settled(promise[i], Rejected(error, now, executionCounter))
                      ELSE promise[i]]
    /\ settleCalls' = [i \in DOMAIN settleCalls |->
                      IF i \in pendingExecutions THEN settleCalls[i] + 1
                      ELSE settleCalls[i]]

\* a Worker object has been created: its module body runs initializeLua()
WorkerBoot ==
    /\ luaEngine' = NullEngine
    /\ leaked' = 0
    /\ currentExecutionId' = NoId
    /\ executionStartTime' = 0
    /\ handlers' = {StartupHandler}
    /\ running' = NoHandler
    /\ innerTimers' = {}
    /\ inbox' = <<>>

\* worker.terminate(): the worker's script, timers and queued messages are gone
WorkerGone ==
    /\ luaEngine' = NullEngine
    /\ leaked' = 0
    /\ currentExecutionId' = NoId
    /\ executionStartTime' = 0
    /\ handlers' = {}
    /\ running' = NoHandler
    /\ innerTimers' = {}
    /\ inbox' = <<>>

\* LuaSandbox.execute(code, {timeout, context, includeAPIs})
execute(code, timeout, ctx, includeAPIs) ==
    /\ UNCHANGED <<storageVars, createFailures>>
    /\ executionCounter < MaxExec
    /\ now + OuterTimerDelay(timeout) <= MaxTime
    /\ IF ~isInitialized \/ worker = 0
       THEN UNCHANGED vars      \* throw new Error('Lua sandbox not initialized')
       ELSE LET id == MakeId(executionCounter + 1, now)
                context == MergedContext(ctx, includeAPIs)
                message == ExecuteScriptMessage(id, code, timeout, context)
            IN  /\ executionCounter' = executionCounter + 1
                /\ outerTimers' = outerTimers \cup
                       {[id |-> id, at |-> now + OuterTimerDelay(timeout)]}
                /\ pendingExecutions' = pendingExecutions \cup {id}
                /\ request' = request @@ (id :> message)
                /\ settleCalls' = settleCalls @@ (id :> 0)
                /\ IF Cloneable(context)
                   THEN /\ inbox' = Append(inbox, message)
                        /\ promise' = promise @@ (id :> PendingPromise)
                   ELSE \* postMessage throws inside the promise executor
                        /\ inbox' = inbox
                        /\ promise' = promise @@ (id :> Rejected(ErrClone, now, executionCounter + 1))
                /\ UNCHANGED <<worker, isInitialized, workload, outbox, workerVars,
                               now, crashes>>

\* the callback of the setTimeout of execute
OuterTimerFire(id) ==
    /\ UNCHANGED <<storageVars, createFailures>>
    /\ \E t \in outerTimers : t.id = id /\ t.at <= now
    /\ outerTimers' = {t \in outerTimers : t.id # id}
    /\ pendingExecutions' = pendingExecutions \ {id}
    /\ inbox' = IF worker # 0
                THEN Append(inbox, TerminateMessage(id, "timeout"))
                ELSE inbox
    /\ SettleOne(id, Resolved(FALSE, "none", ErrOuterTimeout,
                              request[id].timeout, NoId, now,
                              executionCounter))
    /\ UNCHANGED <<worker, isInitialized, executionCounter, workload, request,
                   outbox, workerVars, now, crashes>>

\* handleWorkerMessage without "if (!pending) return"
handleWorkerMessage_NoGuard ==
    /\ UNCHANGED <<storageVars, createFailures>>
    /\ outbox # <<>>
    /\ LET message == Head(outbox)
       IN  /\ outbox' = Tail(outbox)
           /\ message.id \in Allocated
           /\ outerTimers' = {t \in outerTimers : t.id # message.id}
           /\ pendingExecutions' = pendingExecutions \ {message.id}
           /\ SettleOne(message.id,
                 Resolved(message.success, message.result, message.error,
                          message.executionTime, message.id, now,
                          executionCounter))
    /\ UNCHANGED <<worker, isInitialized, executionCounter, workload, request,
                   inbox, workerVars, now, crashes>>

\* handleWorkerMessage that takes the oldest pending entry instead of the
\* entry of message.id
handleWorkerMessage_Fifo ==
    /\ UNCHANGED <<storageVars, createFailures>>
    /\ outbox # <<>>
    /\ LET message == Head(outbox)
       IN  /\ outbox' = Tail(outbox)
           /\ IF pendingExecutions = {}
              THEN UNCHANGED <<pendingExecutions, outerTimers, promise, settleCalls>>
              ELSE LET oldest == CHOOSE i \in pendingExecutions :
                                    \A j \in pendingExecutions : i[1] <= j[1]
                   IN  /\ outerTimers' = {t \in outerTimers : t.id # oldest}
                       /\ pendingExecutions' = pendingExecutions \ {oldest}
                       /\ SettleOne(oldest,
                             Resolved(message.success, message.result, message.error,
                                      message.executionTime, message.id, now,
                                      executionCounter))
    /\ UNCHANGED <<worker, isInitialized, executionCounter, workload, request,
                   inbox, workerVars, now, crashes>>

\* handleWorkerMessage that reports the time since submission instead of
\* message.executionTime
handleWorkerMessage_WallClock ==
    /\ UNCHANGED <<storageVars, createFailures>>
    /\ outbox # <<>>
    /\ LET message == Head(outbox)
       IN  /\ outbox' = Tail(outbox)
           /\ IF message.id \notin pendingExecutions
              THEN UNCHANGED <<pendingExecutions, outerTimers, promise, settleCalls>>
              ELSE /\ outerTimers' = {t \in outerTimers : t.id # message.id}
                   /\ pendingExecutions' = pendingExecutions \ {message.id}
                   /\ SettleOne(message.id,
                         Resolved(message.success, message.result, message.error,
                                  now - message.id[2], message.id, now,
                                  executionCounter))
    /\ UNCHANGED <<worker, isInitialized, executionCounter, workload, request,
                   inbox, workerVars, now, crashes>>

\* handleWorkerMessage without clearTimeout(pending.timeoutId)
handleWorkerMessage_KeepTimer ==
    /\ UNCHANGED <<storageVars, createFailures>>
    /\ outbox # <<>>
    /\ LET message == Head(outbox)
       IN  /\ outbox' = Tail(outbox)
           /\ IF message.id \notin pendingExecutions
              THEN UNCHANGED <<pendingExecutions, promise, settleCalls>>
              ELSE /\ pendingExecutions' = pendingExecutions \ {message.id}
                   /\ SettleOne(message.id,
                         Resolved(message.success, message.result, message.error,
                                  message.executionTime, message.id, now,
                                  executionCounter))
    /\ UNCHANGED <<worker, isInitialized, executionCounter, workload, request,
                   inbox, workerVars, now, crashes, outerTimers>>

\* worker.onmessage -> handleWorkerMessage(event.data)
handleWorkerMessage ==
    /\ UNCHANGED <<storageVars, createFailures>>
    /\ outbox # <<>>
    /\ LET message == Head(outbox)
       IN  /\ outbox' = Tail(outbox)
           /\ IF message.id \notin pendingExecutions
              THEN UNCHANGED <<pendingExecutions, outerTimers, promise, settleCalls>>
              ELSE /\ outerTimers' = {t \in outerTimers : t.id # message.id}
                   /\ pendingExecutions' = pendingExecutions \ {message.id}
                   /\ SettleOne(message.id,
                         Resolved(message.success, message.result, message.error,
                                  message.executionTime, message.id, now,
                                  executionCounter))
    /\ UNCHANGED <<worker, isInitialized, executionCounter, workload, request,
                   inbox, workerVars, now, crashes>>

\* terminate without "if (pending)"
terminate_NoGuard(executionId, reason) ==
    /\ UNCHANGED <<storageVars, createFailures>>
    /\ outerTimers' = {t \in outerTimers : t.id # executionId}
    /\ pendingExecutions' = pendingExecutions \ {executionId}
    /\ inbox' = IF worker # 0
                THEN Append(inbox, TerminateMessage(executionId, reason))
                ELSE inbox
    /\ UNCHANGED <<worker, isInitialized, executionCounter, callerVars, outbox,
                   workerVars, now, crashes>>

\* LuaSandbox.terminate(executionId, reason)
terminate(executionId, reason) ==
    /\ UNCHANGED <<storageVars, createFailures>>
    /\ IF executionId \in pendingExecutions
       THEN /\ outerTimers' = {t \in outerTimers : t.id # executionId}
            /\ pendingExecutions' = pendingExecutions \ {executionId}
            /\ inbox' = IF worker # 0
                        THEN Append(inbox, TerminateMessage(executionId, reason))
                        ELSE inbox
       ELSE UNCHANGED <<outerTimers, pendingExecutions, inbox>>
    /\ UNCHANGED <<worker, isInitialized, executionCounter, callerVars, outbox,
                   workerVars, now, crashes>>

\* worker.onerror without clearTimeout(pending.timeoutId)
onerror_KeepTimers ==
    /\ UNCHANGED <<storageVars, createFailures>>
    /\ worker # 0
    /\ crashes < MaxCrash
    /\ crashes' = crashes + 1
    /\ RejectAllPending(ErrCrashed)
    /\ outerTimers' = outerTimers
    /\ pendingExecutions' = {}
    /\ worker' = worker + 1
    /\ isInitialized' = TRUE
    /\ WorkerBoot
    /\ UNCHANGED <<executionCounter, workload, request, outbox, now>>

\* worker.onerror: reject everything pending, then restartWorker()
onerror ==
    /\ UNCHANGED <<storageVars, createFailures>>
    /\ worker # 0
    /\ crashes < MaxCrash
    /\ crashes' = crashes + 1
    /\ RejectAllPending(ErrCrashed)
    /\ outerTimers' = {t \in outerTimers : t.id \notin pendingExecutions}
    /\ pendingExecutions' = {}
    /\ worker' = worker + 1
    /\ isInitialized' = TRUE
    /\ WorkerBoot
    /\ UNCHANGED <<executionCounter, workload, request, outbox, now>>

\* LuaSandbox.destroy()
destroy ==
    /\ UNCHANGED <<storageVars, createFailures>>
    /\ IF worker # 0
       THEN /\ RejectAllPending(ErrDestroyed)
            /\ outerTimers' = {t \in outerTimers : t.id \notin pendingExecutions}
            /\ pendingExecutions' = {}
            /\ worker' = 0
            /\ isInitialized' = FALSE
            /\ WorkerGone
       ELSE UNCHANGED <<promise, settleCalls, outerTimers, pendingExecutions,
                        worker, isInitialized, inbox, workerVars>>
    /\ UNCHANGED <<executionCounter, workload, request, outbox, now, crashes>>

\* LuaSandbox.isReady()
isReady == isInitialized /\ worker # 0

\* LuaSandbox.getPendingCount()
getPendingCount == Cardinality(pendingExecutions)

\* ------------------------------------------------------------- the worker
\* the worker's event loop is free to run a task
WorkerIdle == worker # 0 /\ running = NoHandler

TheWorker == WState(luaEngine, leaked, handlers)

SetWorker(W) ==
    /\ luaEngine' = W.e
    /\ leaked' = W.lk
    /\ handlers' = W.hs

\* self.postMessage(response) followed by the end of the handler:
\* currentExecutionId = null; executionStartTime = 0
PostAndClear(response) ==
    /\ outbox' = Append(outbox, response)
    /\ currentExecutionId' = NoId
    /\ executionStartTime' = 0

\* the handler is suspended: the globals keep the values cur
KeepCurrent(cur) ==
    /\ outbox' = outbox
    /\ currentExecutionId' = cur.id
    /\ executionStartTime' = cur.start

\* catch of executeLuaScript: await resetLuaEngine(), up to its createEngine.
\* h is the handler, W the worker without h.
CatchReset(h, error, W, cur) ==
    /\ SetWorker(CloseEngine(
           [W EXCEPT !.hs = @ \cup {[h EXCEPT !.pc = "reset", !.err = error]}]))
    /\ KeepCurrent(cur)

\* the call of this execution's registerMockAPIs that throws (0: none)
RegFailsAt(id) == workload[id[1]].regFail

\* executeLuaScript after "await registerMockAPIs()", with the rest of the
\* execute branch of self.onmessage, up to the first await that suspends.
\* m: the execute message; start: startTime of the handler; W: the worker
\* without this handler, APIs registered; cur: currentExecutionId and
\* executionStartTime.
EvaluateScript(m, start, W, cur) ==
    LET W1 == InjectContext(W, m.context)
        W2 == DoString(W1, m.script)
        kind == m.script.kind
        h == [h |-> "exec", msg |-> m, pc |-> "race", start |-> start,
              eng |-> IF kind = "syntax" THEN "none" ELSE "current",
              err |-> "none", res |-> ScriptResult(W2, m.script), late |-> FALSE]
    IN  /\ innerTimers' = innerTimers \cup {[id |-> m.id, at |-> now + m.timeout]}
        /\ CASE kind = "ok" ->
                  /\ SetWorker(W2)
                  /\ running' = running
                  /\ PostAndClear(ExecuteResultMessage(m.id, h.res, now - start,
                                                       h.eng, IsFresh(W2.e)))
             [] kind \in {"error", "syntax"} ->
                  /\ CatchReset(h, IF kind = "syntax" THEN ErrSyntax ELSE ErrRuntime,
                                W2, cur)
                  /\ running' = running
             [] kind \in {"loop", "busy"} ->
                  /\ SetWorker(W2)
                  /\ running' = [h EXCEPT !.pc = "sync"]
                  /\ KeepCurrent(cur)
             [] OTHER ->      \* yield: Promise.race is pending
                  /\ SetWorker([W2 EXCEPT !.hs = @ \cup {h}])
                  /\ running' = running
                  /\ KeepCurrent(cur)

\* registerMockAPIs throws and the script is evaluated all the same
RegistrationIgnored(m, start, W, cur) ==
    EvaluateScript(m, start, registerMockAPIsUpTo(W, RegFailsAt(m.id)), cur)

\* registerMockAPIs throws: executeLuaScript rejects before doString, outside
\* its try, so the catch of self.onmessage posts the error with no reset
RegistrationAborts(m, start, W, cur) ==
    /\ innerTimers' = innerTimers \cup {[id |-> m.id, at |-> now + m.timeout]}
    /\ SetWorker(registerMockAPIsUpTo(W, RegFailsAt(m.id)))
    /\ running' = running
    /\ PostAndClear(ExecuteErrorMessage(m.id, ErrRegistration, now - start, "none",
                                        IsFresh(W.e)))

\* executeLuaScript from "Set up timeout" on: the inner timer is armed, then
\* "await registerMockAPIs()", then the context, doString and the race
executeLuaScript(m, start, W, cur) ==
    IF RegFailsAt(m.id) # 0
    THEN RegistrationAborts(m, start, W, cur)
    ELSE EvaluateScript(m, start, registerMockAPIs(W), cur)

\* self.onmessage, message.type === 'execute':
\* currentExecutionId = message.id; executionStartTime = startTime; then
\* executeLuaScript
OnExecute(m) ==
    IF luaEngine.st = "null"
    THEN \* if (!luaEngine) await initializeLua(): suspended at createEngine
         /\ handlers' = handlers \cup
               {[NoHandler EXCEPT !.h = "exec", !.msg = m, !.pc = "create",
                                  !.start = now]}
         /\ KeepCurrent([id |-> m.id, start |-> now])
         /\ UNCHANGED <<luaEngine, leaked, running, innerTimers>>
    ELSE executeLuaScript(m, now, TheWorker, [id |-> m.id, start |-> now])

\* a terminate branch that does nothing
OnTerminate_Ignore(m) == UNCHANGED <<workerVars, outbox>>

\* a terminate branch without "if (currentExecutionId === message.id)"
OnTerminate_AnyId(m) ==
    /\ SetWorker(CloseEngine(
          [TheWorker EXCEPT !.hs = @ \cup
              {[NoHandler EXCEPT !.h = "term", !.msg = m, !.pc = "reset"]}]))
    /\ UNCHANGED <<currentExecutionId, executionStartTime, running,
                   innerTimers, outbox>>

\* self.onmessage, message.type === 'terminate'
OnTerminate(m) ==
    IF currentExecutionId = m.id
    THEN \* await resetLuaEngine(): suspended at createEngine
         /\ SetWorker(CloseEngine(
               [TheWorker EXCEPT !.hs = @ \cup
                   {[NoHandler EXCEPT !.h = "term", !.msg = m, !.pc = "reset"]}]))
         /\ UNCHANGED <<currentExecutionId, executionStartTime, running,
                        innerTimers, outbox>>
    ELSE UNCHANGED <<workerVars, outbox>>

\* self.onmessage
onmessage ==
    /\ UNCHANGED <<storageVars, createFailures>>
    /\ WorkerIdle
    /\ inbox # <<>>
    /\ inbox' = Tail(inbox)
    /\ IF Head(inbox).type = "execute"
       THEN OnExecute(Head(inbox))
       ELSE OnTerminate(Head(inbox))
    /\ UNCHANGED <<mgrVars, callerVars, now, crashes>>

\* what has become of the engine in which the script of id was evaluated
EngineOf(id, hs) ==
    IF \E h \in hs : h.h = "exec" /\ h.msg.id = id
    THEN (CHOOSE h \in hs : h.h = "exec" /\ h.msg.id = id).eng
    ELSE "none"

\* a createEngine awaited by handler h resolves: initializeLua completes and
\* the handler goes on
createEngineResolved(h) ==
    /\ UNCHANGED <<storageVars, createFailures>>
    /\ WorkerIdle
    /\ h \in handlers
    /\ h.pc \in {"create", "reset"}
    /\ LET W == initializeLua(WState(luaEngine, leaked, handlers \ {h}))
           cur == [id |-> currentExecutionId, start |-> executionStartTime]
       IN  CASE h.h = "startup" ->
                  /\ SetWorker(W)
                  /\ UNCHANGED <<currentExecutionId, executionStartTime, running,
                                 innerTimers, outbox>>
             [] h.h = "exec" /\ h.pc = "create" ->
                  executeLuaScript(h.msg, h.start, W, cur)
             [] h.h = "exec" /\ h.pc = "reset" ->
                  \* throw error; catch of self.onmessage; finally
                  /\ SetWorker(W)
                  /\ PostAndClear(ExecuteErrorMessage(h.msg.id, h.err,
                                     now - h.start, h.eng, IsFresh(W.e)))
                  /\ UNCHANGED <<running, innerTimers>>
             [] OTHER ->      \* terminate branch after await resetLuaEngine()
                  /\ SetWorker(W)
                  /\ PostAndClear(ExecuteErrorMessage(h.msg.id,
                                     ErrTerminated(h.msg.reason),
                                     now - executionStartTime,
                                     EngineOf(h.msg.id, W.hs), IsFresh(W.e)))
                  /\ UNCHANGED <<running, innerTimers>>
    /\ UNCHANGED <<mgrVars, callerVars, inbox, now, crashes>>

\* luaFactory.createEngine() rejects: "luaEngine = await ..." in initializeLua
\* is not carried out and the rejection goes to whoever awaits initializeLua.
createEngineRejected(h) ==
    /\ UNCHANGED storageVars
    /\ WorkerIdle
    /\ h \in handlers
    /\ h.pc \in {"create", "reset"}
    /\ workload \in FaultyRuns
    /\ createFailures < MaxCreateFail
    /\ createFailures' = createFailures + 1
    /\ SetWorker(WState(luaEngine, leaked, handlers \ {h}))
    /\ IF h.h = "exec"
       THEN \* executeLuaScript rejects: catch and finally of self.onmessage
            PostAndClear(ExecuteErrorMessage(h.msg.id, ErrCreate, now - h.start,
                                             h.eng, IsFresh(luaEngine)))
       ELSE \* startup: .catch(console.error); terminate branch: the handler
            \* rejects with nobody awaiting it
            UNCHANGED <<currentExecutionId, executionStartTime, outbox>>
    /\ UNCHANGED <<running, innerTimers>>
    /\ UNCHANGED <<mgrVars, callerVars, inbox, now, crashes>>

\* a timer callback that resets the engine when its race is already settled
InnerTimerFire_ResetsAnyway(t) ==
    /\ UNCHANGED <<storageVars, createFailures>>
    /\ WorkerIdle
    /\ t \in innerTimers
    /\ t.at <= now
    /\ innerTimers' = innerTimers \ {t}
    /\ IF \E h \in handlers : h.h = "exec" /\ h.msg.id = t.id /\ h.pc = "race"
       THEN LET h == CHOOSE h \in handlers :
                        h.h = "exec" /\ h.msg.id = t.id /\ h.pc = "race"
            IN  CatchReset(h, ErrInnerTimeout,
                           WState(luaEngine, leaked, handlers \ {h}),
                           [id |-> currentExecutionId, start |-> executionStartTime])
       ELSE /\ SetWorker(CloseEngine(TheWorker))
            /\ UNCHANGED <<outbox, currentExecutionId, executionStartTime>>
    /\ UNCHANGED <<mgrVars, callerVars, inbox, running, now, crashes>>

\* the callback of the setTimeout of executeLuaScript: reject(timeout error)
InnerTimerFire(t) ==
    /\ UNCHANGED <<storageVars, createFailures>>
    /\ WorkerIdle
    /\ t \in innerTimers
    /\ t.at <= now
    /\ innerTimers' = innerTimers \ {t}
    /\ IF \E h \in handlers : h.h = "exec" /\ h.msg.id = t.id /\ h.pc = "race"
       THEN LET h == CHOOSE h \in handlers :
                        h.h = "exec" /\ h.msg.id = t.id /\ h.pc = "race"
            IN  CatchReset(h, ErrInnerTimeout,
                           WState(luaEngine, leaked, handlers \ {h}),
                           [id |-> currentExecutionId, start |-> executionStartTime])
       ELSE \* the race is already settled: the rejection is ignored
            UNCHANGED <<luaEngine, leaked, handlers, outbox,
                        currentExecutionId, executionStartTime>>
    /\ UNCHANGED <<mgrVars, callerVars, inbox, running, now, crashes>>

\* the promise of doString settles after the inner timer has won the race:
\* Promise.race is already rejected and nothing else awaits that promise
LateSettlement(h) ==
    /\ UNCHANGED <<storageVars, createFailures>>
    /\ WorkerIdle
    /\ h \in handlers
    /\ h.h = "exec" /\ h.pc = "reset" /\ h.err = ErrInnerTimeout
    /\ ~h.late
    /\ handlers' = (handlers \ {h}) \cup {[h EXCEPT !.late = TRUE]}
    /\ UNCHANGED <<luaEngine, leaked, currentExecutionId, executionStartTime,
                   running, innerTimers, outbox>>
    /\ UNCHANGED <<mgrVars, callerVars, inbox, now, crashes>>

\* the script of a handler suspended at Promise.race settles
ScriptSettles(h, ok) ==
    /\ UNCHANGED <<storageVars, createFailures>>
    /\ WorkerIdle
    /\ h \in handlers
    /\ h.pc = "race"
    /\ IF ok
       THEN /\ handlers' = handlers \ {h}
            /\ PostAndClear(ExecuteResultMessage(h.msg.id, h.res, now - h.start,
                                                 h.eng, IsFresh(luaEngine)))
            /\ UNCHANGED <<luaEngine, leaked>>
       ELSE CatchReset(h, ErrRuntime, WState(luaEngine, leaked, handlers \ {h}),
                       [id |-> currentExecutionId, start |-> executionStartTime])
    /\ UNCHANGED <<mgrVars, callerVars, inbox, running, innerTimers, now, crashes>>

\* the synchronous computation of a "busy" script returns: doString resolves
\* and wins the race even if the inner timer is overdue
SyncReturns ==
    /\ UNCHANGED <<storageVars, createFailures>>
    /\ worker # 0
    /\ running # NoHandler
    /\ running.msg.script.kind = "busy"
    /\ running' = NoHandler
    /\ PostAndClear(ExecuteResultMessage(running.msg.id, running.res,
                                         now - running.start, running.eng,
                                         IsFresh(luaEngine)))
    /\ UNCHANGED <<mgrVars, callerVars, inbox, luaEngine, leaked, handlers,
                   innerTimers, now, crashes>>

\* ----------------------------------------------------------------- clock
\* something that takes no noticeable time is ready to happen
Urgent ==
    \/ outbox # <<>>
    \/ \E t \in outerTimers : t.at <= now
    \/ /\ WorkerIdle
       /\ \/ inbox # <<>>
          \/ \E h \in handlers : h.pc \in {"create", "reset"}
          \/ \E t \in innerTimers : t.at <= now

\* the clock is observed only through timers: it advances while one is armed
Tick ==
    /\ UNCHANGED <<storageVars, createFailures>>
    /\ now < MaxTime
    /\ ~Urgent
    /\ \E t \in outerTimers \cup innerTimers : t.at > now
    /\ now' = now + OuterBuffer
    /\ UNCHANGED <<mgrVars, callerVars, inbox, outbox, workerVars, crashes>>

\* -------------------------------------------------- MockStorageAPI actions
\* "await this.delay(10)": the call c is suspended behind the earlier ones
Suspend(c) ==
    /\ opCount < MaxOps
    /\ opCount' = opCount + 1
    /\ delayed' = Append(delayed, c)

\* MockStorageAPI.get(key), up to its await
get(key) ==
    /\ Suspend(StorageOp("get", key, "null"))
    /\ UNCHANGED <<storage, applied, returned, sandboxVars>>

\* MockStorageAPI.set(key, value), up to its await
set(key, value) ==
    /\ Suspend(StorageOp("set", key, value))
    /\ UNCHANGED <<storage, applied, returned, sandboxVars>>

\* MockStorageAPI.remove(key), up to its await
remove(key) ==
    /\ Suspend(StorageOp("remove", key, "null"))
    /\ UNCHANGED <<storage, applied, returned, sandboxVars>>

\* MockStorageAPI.clear(), up to its await
clear ==
    /\ Suspend(StorageOp("clear", "k1", "null"))
    /\ UNCHANGED <<storage, applied, returned, sandboxVars>>

\* return this.storage.get(key) ?? null
GetBody(m, key) == OrNull(m[key])

\* try { JSON.stringify(value); this.storage.set(key, value) } catch { throw }
SetBody(m, key, value) ==
    IF StringifyThrows(value) THEN m ELSE [m EXCEPT ![key] = value]

\* a delete that empties the Map
RemoveBody_All(m, key) == EmptyMap

\* this.storage.delete(key)
RemoveBody(m, key) == [m EXCEPT ![key] = Undefined]

\* this.storage.clear()
ClearBody(m) == EmptyMap

\* the Map after the body of call c
StorageAfter(m, c) ==
    CASE c.op = "set" -> SetBody(m, c.key, c.value)
      [] c.op = "remove" -> RemoveBody(m, c.key)
      [] c.op = "clear" -> ClearBody(m)
      [] OTHER -> m

\* the call completes normally (its promise is fulfilled)
Completes(c) == ~(c.op = "set" /\ StringifyThrows(c.value))

\* the delay of the oldest suspended call has elapsed: its body runs and the
\* call completes.  All delays are 10 ms, so the timers fire in call order.
delay ==
    /\ delayed # <<>>
    /\ LET c == Head(delayed)
       IN  /\ delayed' = Tail(delayed)
           /\ storage' = StorageAfter(storage, c)
           /\ applied' = IF c.op # "get" /\ Completes(c)
                         THEN Append(applied, c) ELSE applied
           /\ returned' = IF c.op = "get"
                          THEN returned \cup {[key |-> c.key,
                                               result |-> GetBody(storage, c.key),
                                               after |-> applied]}
                          ELSE returned
    /\ UNCHANGED <<opCount, sandboxVars>>

StorageNext ==
    \/ \E key \in Keys : get(key)
    \/ \E key \in Keys, value \in Values : set(key, value)
    \/ \E key \in Keys : remove(key)
    \/ clear
    \/ delay

\* a new MockStorageAPI beside a sandbox that stays idle
IdleInit == Init /\ workload = <<Plain("ok")>>

\* one MockStorageAPI and its callers
StorageSpec == IdleInit /\ [][StorageNext]_vars

\* ------------------------------------------------------------------ Next
\* the next call of the host's workload
NextCall == workload[executionCounter + 1]

Next ==
    \/ \E timeout \in Timeouts :
          /\ executionCounter < Len(workload)
          /\ execute(NextCall.code, timeout, NextCall.ctx, NextCall.includeAPIs)
    \/ \E id \in Allocated : OuterTimerFire(id)
    \/ handleWorkerMessage
    \/ \E id \in Allocated \cup {NoId} : terminate(id, "manual")
    \/ onerror
    \/ destroy
    \/ onmessage
    \/ \E h \in handlers : createEngineResolved(h)
    \/ \E h \in handlers : createEngineRejected(h)
    \/ \E t \in innerTimers : InnerTimerFire(t)
    \/ \E h \in handlers, ok \in BOOLEAN : ScriptSettles(h, ok)
    \/ \E h \in handlers : LateSettlement(h)
    \/ SyncReturns
    \/ Tick

Spec == Init /\ [][Next]_vars

\* Timers that are due fire, posted messages are handled and createEngine
\* resolves; the host's calls, a worker crash and the progress of a guest
\* script are not forced.
FairSpec ==
    /\ Spec
    /\ WF_vars(Tick)
    /\ WF_vars(\E id \in Allocated : OuterTimerFire(id))
    /\ WF_vars(handleWorkerMessage)
    /\ WF_vars(onmessage)
    /\ WF_vars(\E h \in handlers : createEngineResolved(h))
    /\ WF_vars(\E t \in innerTimers : InnerTimerFire(t))


\* =================================================================== claims
SubmittedAt(id) == id[2]

\* everything the manager keeps for id, and the promise of id, stay as they are
EntryUnchanged(id) ==
    /\ (id \in pendingExecutions') = (id \in pendingExecutions)
    /\ {t \in outerTimers' : t.id = id} = {t \in outerTimers : t.id = id}
    /\ promise'[id] = promise[id]
    /\ settleCalls'[id] = settleCalls[id]

\* the step is one of the events that belong to id: a worker reply for id,
\* the outer timer of id, or terminate(id)
EventFor(id) ==
    \/ handleWorkerMessage /\ Head(outbox).id = id
    \/ OuterTimerFire(id)
    \/ terminate(id, "manual")

\* C1: for every execution id the manager calls resolve or reject at most
\* once; a call of resolve or reject for id is made by the event that removes
\* the pending entry of id; an armed outer timer always belongs to a pending
\* entry; and an event for an id that is no longer pending changes nothing
\* and sends nothing, while an event for id never touches another entry.
C1_SettledAtMostOnce ==
    /\ [](\A id \in Allocated :
            /\ settleCalls[id] <= 1
            /\ \A t \in outerTimers : t.id \in pendingExecutions)
    /\ [][\A id \in Allocated :
            /\ settleCalls'[id] > settleCalls[id] =>
                   id \in pendingExecutions /\ id \notin pendingExecutions'
            /\ EventFor(id) =>
                 /\ \A j \in Allocated \ {id} : EntryUnchanged(j)
                 /\ id \notin pendingExecutions =>
                        EntryUnchanged(id) /\ inbox' = inbox]_vars

\* C1 witness: the outer timer of id has resolved the promise and the
\* worker's reply for the same id is still to be handled
C1_Witness ==
    \E id \in Allocated :
        /\ promise[id].st = "resolved"
        /\ promise[id].error = ErrOuterTimeout
        /\ settleCalls[id] = 1
        /\ \E i \in DOMAIN outbox : outbox[i].id = id


\* C2: every accepted execute call eventually yields an outcome: for each
\* n, once the promise of the n-th call is pending it is eventually settled
\* (resolved or rejected).
C2_EveryPromiseSettles ==
    \A n \in 1..MaxExec :
        (\E id \in Allocated : id[1] = n /\ promise[id].st = "pending")
            ~> (\E id \in Allocated : id[1] = n /\ promise[id].st # "pending")

\* C3: a promise that was resolved with a worker message was resolved with
\* the message carrying its own id, and handling the reply for one id leaves
\* the entry, the timer and the promise of every other id as they were.
C3_RepliesCorrelatedById ==
    /\ [](\A id \in Allocated :
            promise[id].st = "resolved" /\ promise[id].from # NoId =>
                promise[id].from = id)
    /\ [][\A id \in Allocated :
            handleWorkerMessage /\ Head(outbox).id = id =>
                /\ \A j \in Allocated \ {id} : EntryUnchanged(j)
                /\ id \in pendingExecutions =>
                     /\ promise'[id].st = "resolved"
                     /\ promise'[id].success = Head(outbox).success
                     /\ promise'[id].result = Head(outbox).result
                     /\ promise'[id].error = Head(outbox).error]_vars

\* C3 witness: two executions are in flight and the second one's reply has
\* resolved its promise while the first is still pending
C3_Witness ==
    \E i, j \in Allocated :
        /\ i[1] < j[1]
        /\ i \in pendingExecutions
        /\ promise[i].st = "pending"
        /\ promise[j].st = "resolved"
        /\ promise[j].from = j
        /\ promise[j].success

\* a script that returns the value of global n has observed something a
\* guest script assigned
ObservesGuestValue(id) ==
    /\ promise[id].st = "resolved"
    /\ promise[id].success
    /\ request[id].script.r # "none"
    /\ promise[id].result = "guest"

\* C4: no script observes a global that an earlier script defined or a
\* built-in that an earlier script redefined, whatever the outcome of the
\* earlier script.  (The scripts that return a global assign none.)
C4_NoGlobalLeaks ==
    \A id \in Allocated : ~ObservesGuestValue(id)

\* the failure responses of a guest error, the inner timeout and a termination
ScriptFailures ==
    {ErrRuntime, ErrSyntax, ErrInnerTimeout,
     ErrTerminated("manual"), ErrTerminated("timeout")}

\* C5: when the worker posts a failure response for an id, the engine that
\* evaluated the script of that id has been closed and luaEngine is a newly
\* created engine in which nothing has been evaluated.
C5_ResetBeforeFailureResponse ==
    \A i \in DOMAIN outbox :
        ~outbox[i].success /\ outbox[i].error \in ScriptFailures =>
            /\ outbox[i].eng \in {"closed", "none"}
            /\ outbox[i].fresh

EndedInFailure(i) ==
    /\ promise[i].st = "resolved"
    /\ ~promise[i].success
    /\ promise[i].error \in {ErrRuntime, ErrSyntax, ErrInnerTimeout, ErrOuterTimeout}

\* C7: after an execution has ended in a runtime error, a syntax error or a
\* timeout, a terminating script submitted afterwards is resolved with
\* success.
C7_RecoversAfterFailure ==
    \A i, j \in Allocated :
        /\ EndedInFailure(i)
        /\ promise[i].calls < j[1]
        /\ request[j].script.kind = "ok"
        /\ promise[j].st = "resolved"
        => promise[j].success

C9_NoFunctionHandedToPostMessage ==
    \A id \in Allocated : Cloneable(request[id].context)

\* C10: destroy() on a destroyed sandbox, and terminate(id) on an id that is
\* not pending (completed, terminated or never allocated), change nothing:
\* no message is sent and no promise is settled.
C10_IdempotentTeardown ==
    [][/\ destroy /\ worker = 0 => UNCHANGED vars
       /\ \A id \in Allocated \cup {NoId} :
             terminate(id, "manual") /\ id \notin pendingExecutions =>
                 UNCHANGED vars]_vars

\* C10 witness: the sandbox has been destroyed with an execution pending,
\* and another execution had completed before: a second destroy() and a
\* terminate of either id are now possible
C10_Witness ==
    /\ worker = 0
    /\ \E i, j \in Allocated :
          /\ promise[i].st = "resolved"
          /\ promise[j].st = "rejected"
          /\ promise[j].error = ErrDestroyed


\* what destroy() leaves behind for the entries of the pending map
DestroyClearsTheMap ==
    /\ pendingExecutions' = {}
    /\ outerTimers' = {}
    /\ \A id \in pendingExecutions :
          promise[id].st = "pending" =>
              promise'[id].st = "rejected" /\ promise'[id].error = ErrDestroyed
    /\ worker' = 0
    /\ ~isReady'
    /\ inbox' = <<>>

\* C11: after destroy() on a live sandbox the pending set is empty, every
\* promise that was pending is settled, no outer timer is armed, the worker
\* is gone and isReady() is false; and on a destroyed sandbox no timer is
\* armed and no message is queued for the worker.
C11_DestroySettlesAll ==
    /\ [](worker = 0 => outerTimers = {} /\ inbox = <<>> /\ pendingExecutions = {})
    /\ [][destroy /\ worker # 0 =>
             /\ DestroyClearsTheMap
             /\ \A id \in Allocated : promise'[id].st # "pending"]_vars


\* the promise of id was failed by a worker crash
FailedByCrash(id) ==
    promise[id].st = "rejected" /\ promise[id].error = ErrCrashed

\* C12: a worker error fails and removes every pending entry and cancels its
\* outer timer; the worker is replaced by exactly one new worker, which
\* starts with an empty queue (no execute message is re-sent, then or
\* later); after the restart isReady() is true and an execute call is
\* accepted (it allocates an id with a pending entry).
C12_CrashFailsAllAndRestartsOnce ==
    /\ [](\A i \in DOMAIN inbox :
             inbox[i].type = "execute" => ~FailedByCrash(inbox[i].id))
    /\ [][/\ onerror =>
               /\ pendingExecutions' = {}
               /\ outerTimers' = {}
               /\ \A id \in pendingExecutions :
                     promise[id].st = "pending" => FailedByCrash(id)'
               /\ \A id \in Allocated \ pendingExecutions :
                     promise'[id] = promise[id]
               /\ worker' = worker + 1
               /\ inbox' = <<>>
               /\ handlers' = {StartupHandler}
               /\ isReady'
          /\ (crashes > 0 /\ isReady /\ executionCounter' # executionCounter) =>
               /\ executionCounter' = executionCounter + 1
               /\ \E id \in pendingExecutions' \ pendingExecutions :
                     id[1] = executionCounter']_vars

\* C12 witness: an execution was failed by a crash and one submitted after
\* the restart has been evaluated by the new worker and resolved with success
C12_Witness ==
    \E i, j \in Allocated :
        /\ FailedByCrash(i)
        /\ promise[i].calls < j[1]
        /\ promise[j].st = "resolved"
        /\ promise[j].success
        /\ worker = 2
        /\ isReady


\* C13: the promise returned by an accepted execute call whose message was
\* posted to the worker is never rejected: every failure reaches the caller
\* as a resolved outcome with success = false.
C13_NeverRejects ==
    \A id \in Allocated :
        Cloneable(request[id].context) => promise[id].st # "rejected"


\* the options of the execute call that allocated id
CallOf(id) == workload[id[1]]

\* C14: when execute is called with includeAPIs = false, the script does not
\* find a capability table under wallet, network or print: a script that
\* returns one of these names is never resolved with the registrar's table.
C14_NoCapabilitiesWhenDisabled ==
    \A id \in Allocated :
        /\ ~CallOf(id).includeAPIs
        /\ request[id].script.r \in Reserved
        /\ promise[id].st = "resolved"
        /\ promise[id].success
        => promise[id].result # "cap"


\* the ids whose execute message was posted to the worker
Posted == {id \in Allocated : Cloneable(request[id].context)}

\* C15: getPendingCount() equals the number of execute calls whose promise
\* has not settled (counted over the calls whose message was posted, which
\* are all calls when no message holds a function).
C15_PendingCountIsUnsettledCount ==
    /\ Posted = Allocated => getPendingCount = Cardinality(pendingExecutions \cap Posted)
    /\ Cardinality(pendingExecutions \cap Posted)
          = Cardinality({id \in Posted : promise[id].st = "pending"})


\* C16: the ids allocated by one LuaSandbox are pairwise distinct: there are
\* as many ids as accepted execute calls, each call allocates an id that no
\* earlier call has, and the counter is never reset, also across a restart
\* of the worker.
C16_IdsAreDistinct ==
    /\ [](/\ Cardinality(Allocated) = executionCounter
          /\ \A id \in Allocated : id[1] \in 1..executionCounter
          /\ \A i, j \in Allocated : i[1] = j[1] => i = j)
    /\ [][/\ executionCounter' >= executionCounter
          /\ Allocated \subseteq Allocated'
          /\ executionCounter' # executionCounter =>
                Cardinality(Allocated' \ Allocated) = 1]_vars

\* C16 witness: two ids allocated in the same millisecond, one before and
\* one after a restart of the worker
C16_Witness ==
    \E i, j \in Allocated :
        /\ i # j
        /\ SubmittedAt(i) = SubmittedAt(j)
        /\ FailedByCrash(i)
        /\ promise[i].calls < j[1]
        /\ worker = 2


\* the script of id is suspended in luaEngine, which has not been closed
StillEvaluating(id, hs) ==
    \E h \in hs : /\ h.h = "exec"
                  /\ h.msg.id = id
                  /\ h.pc = "race"
                  /\ h.eng = "current"

\* the manager's part of terminate(id) on a pending id
TerminateRemovesEntry(id) ==
    /\ id \notin pendingExecutions'
    /\ \A t \in outerTimers' : t.id # id
    /\ inbox' = Append(inbox, TerminateMessage(id, "manual"))
    /\ \A j \in Allocated \ {id} : EntryUnchanged(j)

\* C17: terminate(id) on a pending id removes the entry, cancels its timer,
\* posts one terminate message with the id and the reason and leaves every
\* other entry alone; and when the worker has handled that message the
\* script of id is no longer being evaluated.
C17_TerminateStopsExecution ==
    [][/\ \A id \in pendingExecutions :
             terminate(id, "manual") => TerminateRemovesEntry(id)
       /\ (onmessage /\ Head(inbox).type = "terminate"
                     /\ Head(inbox).reason = "manual") =>
             ~StillEvaluating(Head(inbox).id, handlers')]_vars


\* C18: a success outcome is the worker's result message for the same id,
\* with its result and executionTime unchanged: the manager delivers a
\* result message of a pending id as success = true with the message's
\* result and executionTime, no outcome with success = true has another
\* origin, and a script that returns a literal is resolved with the literal.
C18_SuccessPassedThrough ==
    /\ [](\A id \in Allocated :
             promise[id].st = "resolved" /\ promise[id].success =>
                 /\ promise[id].from = id
                 /\ promise[id].error = "none"
                 /\ request[id].script.r = "none" => promise[id].result = "literal")
    /\ [][\A id \in pendingExecutions :
             (handleWorkerMessage /\ Head(outbox).id = id /\ Head(outbox).success) =>
                 /\ promise'[id].st = "resolved"
                 /\ promise'[id].success
                 /\ promise'[id].result = Head(outbox).result
                 /\ promise'[id].executionTime = Head(outbox).executionTime]_vars

\* C18 witness: a script that was handled by the worker some time after its
\* submission has been resolved with success and the worker's own
\* executionTime
C18_Witness ==
    \E id \in Allocated :
        /\ promise[id].st = "resolved"
        /\ promise[id].success
        /\ promise[id].result = "literal"
        /\ promise[id].at > SubmittedAt(id)
        /\ promise[id].executionTime < promise[id].at - SubmittedAt(id)


\* the value the completed calls hist leave under key: that of the last
\* set(key, .) if no remove(key) or clear() came after it, else "null"
RECURSIVE LastValue(_, _)
LastValue(hist, key) ==
    IF hist = <<>> THEN "null"
    ELSE LET c == hist[Len(hist)]
         IN  CASE c.op = "clear" -> "null"
               [] c.op = "remove" /\ c.key = key -> "null"
               [] c.op = "set" /\ c.key = key -> c.value
               [] OTHER -> LastValue(SubSeq(hist, 1, Len(hist) - 1), key)

\* C19: the storage capability is a key-value map: a completed get(k)
\* returns the value of the last completed set(k, .) unless a remove(k) or
\* clear() completed after it, and null otherwise; and the body of a call on
\* one key leaves the value of every other key as it was.
C19_StorageIsKeyValueMap ==
    /\ [](\A g \in returned : g.result = LastValue(g.after, g.key))
    /\ [][\A k \in Keys :
             (delay /\ Head(delayed).op \in {"get", "set", "remove"}
                    /\ Head(delayed).key # k) => storage'[k] = storage[k]]_vars

\* C19 witness: a get has returned a value that was set over an earlier
\* value of the same key, after a remove of another key, and a get of a
\* removed key has returned null
C19_Witness ==
    /\ \E g \in returned :
          /\ g.result \in {"a", "b"}
          /\ \E i, j \in DOMAIN g.after :
                /\ i < j
                /\ g.after[i].op = "set" /\ g.after[i].key = g.key
                /\ g.after[i].value # g.result
                /\ g.after[j].op = "remove" /\ g.after[j].key # g.key
    /\ opCount = MaxOps


\* the execute handlers that have started and not yet posted their response
ActiveExecutions ==
    {h.msg.id : h \in {g \in handlers : g.h = "exec"}}
        \cup (IF running = NoHandler THEN {} ELSE {running.msg.id})

\* C20: at most one execute request is active in the worker: while the
\* handler of one execute message has started and not posted its response,
\* no handler of another execute message has started.
C20_OneActiveExecution ==
    Cardinality(ActiveExecutions) <= 1


\* the execute message of id has been received and its handler is suspended
\* at createEngine: the script has not been evaluated
AwaitsEngine(id) ==
    \E h \in handlers : h.h = "exec" /\ h.pc = "create" /\ h.msg.id = id

\* this step receives the execute message of id while an engine exists: its
\* handler goes straight on to doString
EvaluatedOnReceipt(id) ==
    /\ onmessage
    /\ Head(inbox).type = "execute"
    /\ Head(inbox).id = id
    /\ luaEngine.st # "null"

\* C21: scripts are evaluated in dispatch order: when the worker evaluates
\* a script on receipt of its message, no script whose execute message was
\* posted earlier is still waiting to be evaluated.
C21_EvaluatedInDispatchOrder ==
    [][\A a, b \in Allocated :
          a[1] < b[1] /\ EvaluatedOnReceipt(b) => ~AwaitsEngine(a)]_vars


\* the script of id is suspended at the Promise.race of its handler
SuspendedAtRace(id, hs) ==
    \E h \in hs : h.h = "exec" /\ h.msg.id = id /\ h.pc = "race"

C23_OneResponsePerId ==
    \A i, j \in DOMAIN outbox :
        i # j => outbox[i].id # outbox[j].id


\* what the outer timer of id does to the manager's entry and the transport
OuterTimerRemovesEntry(id) ==
    /\ id \notin pendingExecutions'
    /\ \A t \in outerTimers' : t.id # id
    /\ inbox' = Append(inbox, TerminateMessage(id, "timeout"))
    /\ outbox' = outbox
    /\ \A j \in Allocated \ {id} : EntryUnchanged(j)

\* the caller of id holds the manager's timeout outcome
HoldsTimeoutOutcome(p, id) ==
    /\ p.st = "resolved"
    /\ ~p.success
    /\ p.error = ErrOuterTimeout
    /\ p.executionTime = request[id].timeout

\* C24: when the outer timer of a pending id fires, the manager removes the
\* entry, posts one terminate message {id, 'timeout'}, and the caller holds
\* success = false, 'Execution timeout after <timeout>ms' and executionTime
\* equal to the requested timeout, in the same step.
C24_OuterTimerSynthesizesTimeout ==
    [][\A id \in pendingExecutions :
          OuterTimerFire(id) =>
              /\ OuterTimerRemovesEntry(id)
              /\ HoldsTimeoutOutcome(promise'[id], id)]_vars


\* the inner timer t of id was armed early enough to be due before the outer
\* timer of id (the worker reached executeLuaScript within the buffer), and
\* it has not fired
InnerTimerOverdue(t, id) ==
    /\ t.id = id
    /\ t.at < SubmittedAt(id) + request[id].timeout + OuterBuffer

\* C25: the outer timer of a request is armed for timeout + OuterBuffer
\* after submission, and when it fires for a pending id, the worker's inner
\* timer for that id, if it was armed within the buffer, has already fired.
C25_OuterNeverBeforeInner ==
    /\ [](\A t \in outerTimers :
             t.at = SubmittedAt(t.id) + request[t.id].timeout + OuterBuffer)
    /\ [][\A id \in pendingExecutions :
             OuterTimerFire(id) =>
                 \A t \in innerTimers : ~InnerTimerOverdue(t, id)]_vars

\* the step in which the worker registers the capabilities for the execution
\* id: the execute message is taken with an engine at hand, or the createEngine
\* its handler awaits resolves
RegistersFor(id) ==
    \/ onmessage /\ Head(inbox).type = "execute" /\ Head(inbox).id = id
                 /\ luaEngine.st # "null"
    \/ \E h \in handlers : /\ h.h = "exec" /\ h.pc = "create" /\ h.msg.id = id
                           /\ createEngineResolved(h)

\* the step posts the registration failure for id and evaluates nothing of
\* its script
AbortedBeforeGuestCode(id) ==
    /\ outbox' = Append(outbox, outbox'[Len(outbox')])
    /\ outbox'[Len(outbox')].id = id
    /\ ~outbox'[Len(outbox')].success
    /\ outbox'[Len(outbox')].error = ErrRegistration
    /\ \A n \in GlobalNames : luaEngine'.g[n] = "guest" => luaEngine.g[n] = "guest"
    /\ luaEngine'.used => luaEngine.used
    /\ ~SuspendedAtRace(id, handlers')
    /\ running' = running

StartsEvaluation(id) ==
    /\ RegFailsAt(id) = 0
    /\ request[id].script.kind \in {"ok", "loop", "busy", "yield"}
    /\ RegistersFor(id)

\* what the script of id, whose evaluation starts in this step, returns
ValueRead(id) ==
    CASE request[id].script.kind = "ok" -> outbox'[Len(outbox')].result
      [] request[id].script.kind \in {"loop", "busy"} -> running'.res
      [] OTHER -> (CHOOSE h \in handlers' : h.h = "exec" /\ h.msg.id = id).res

RetriesInitialization(id) ==
    /\ onmessage /\ Head(inbox).type = "execute" /\ Head(inbox).id = id
    /\ luaEngine.st = "null"

\* a createEngine call of the first worker has rejected
EngineCreationFailed == createFailures > 0 /\ worker = 1 /\ crashes = 0

\* C28: once a createEngine call of a worker has rejected, that worker neither
\* calls initializeLua again for an execute message nor registers capabilities
\* and evaluates a script, and the rejection is never reported in the response
\* to an execution as if the script had failed.
C28_EngineCreationFailureIsFatal ==
    /\ [][EngineCreationFailed =>
             \A id \in Allocated : ~RetriesInitialization(id) /\ ~RegistersFor(id)]_vars
    /\ [](\A i \in DOMAIN outbox : outbox[i].error # ErrCreate)

\* C29: every engine that was created is the current luaEngine or has been
\* closed: no engine is left open after luaEngine was assigned another one,
\* so at most one engine is live.
C29_AtMostOneLiveEngine == leaked = 0

\* the engine in which the suspended script of b is being evaluated is closed
\* by this step, and b stays suspended in it
ClosedUnder(b) ==
    /\ SuspendedAtRace(b, handlers) /\ EngineOf(b, handlers) = "current"
    /\ SuspendedAtRace(b, handlers') /\ EngineOf(b, handlers') = "closed"

\* C30: the engine in which a script is still being evaluated is closed only
\* by the termination of that execution itself, never by the reset that the
\* failure, inner timeout or termination of another execution brings about.
C30_ResetSparesOtherExecutions ==
    [][\A b \in Allocated :
          ClosedUnder(b) =>
              onmessage /\ Head(inbox).type = "terminate" /\ Head(inbox).id = b]_vars

\* the script of id is in flight in the worker: it computes, or it is
\* suspended in the engine it was started in
ScriptInFlight(id) ==
    \/ running # NoHandler /\ running.msg.id = id
    \/ StillEvaluating(id, handlers)

\* C31: while the script of id is in flight in the worker currentExecutionId
\* is id, and while no execute handler is active currentExecutionId is null.
C31_CurrentIdIsTheOneInFlight ==
    /\ \A id \in Allocated : ScriptInFlight(id) => currentExecutionId = id
    /\ ActiveExecutions = {} => currentExecutionId = NoId

\* postMessage threw for the execute message of id
HandoverFailed(id) == ~Cloneable(request[id].context)

\* C32: when worker.postMessage throws for the execute message of id, the
\* promise of id is rejected and the manager keeps nothing of the call: no
\* pending entry, no armed outer timer, and no terminate message for id is
\* ever sent.
C32_FailedHandoverLeavesNothing ==
    \A id \in Allocated :
        HandoverFailed(id) =>
            /\ promise[id].st = "rejected"
            /\ id \notin pendingExecutions
            /\ \A t \in outerTimers : t.id # id
            /\ \A i \in DOMAIN inbox :
                  ~(inbox[i].type = "terminate" /\ inbox[i].id = id)

\* the manager has given up id: the outer timer has delivered the timeout
\* outcome, or terminate(id) has removed the entry
GivenUp(id) ==
    /\ id \notin pendingExecutions
    /\ \/ promise[id].st = "pending"
       \/ promise[id].st = "resolved" /\ promise[id].error = ErrOuterTimeout

\* C33: after the manager has delivered the timeout outcome of id or removed
\* id by terminate(id), the worker does not begin to evaluate the script of id.
C33_NoEvaluationAfterGivingUp ==
    [][\A id \in Allocated :
          GivenUp(id) /\ RegFailsAt(id) = 0 => ~RegistersFor(id)]_vars

\* the manager posts a terminate message for id in this step
PostsTerminate(id) ==
    \E reason \in {"timeout", "manual"} :
        inbox' = Append(inbox, TerminateMessage(id, reason))

\* the manager has handled a reply of the worker for id
ReplyHandled(id) == promise[id].st = "resolved" /\ promise[id].from = id

\* C34: the manager posts a terminate message for an id only while the id is
\* in pendingExecutions; once a reply for the id has been handled the id is
\* no longer pending and its outer timer is no longer armed, so that neither
\* the timer nor terminate(id) posts a terminate message for it afterwards.
C34_TerminateOnlyWhilePending ==
    /\ [][\A id \in Allocated \cup {NoId} :
             PostsTerminate(id) => id \in pendingExecutions]_vars
    /\ [](\A id \in Allocated :
             ReplyHandled(id) => /\ id \notin pendingExecutions
                                 /\ \A t \in outerTimers : t.id # id)

\* the reply for id was handled, the time its outer timer was set for has
\* passed, and no terminate message was posted
C34_Witness ==
    \E id \in Allocated :
        /\ ReplyHandled(id)
        /\ now >= SubmittedAt(id) + OuterTimerDelay(request[id].timeout)
        /\ inbox = <<>>
        /\ worker = 1

\* C35: a terminate message whose id is not currentExecutionId changes
\* nothing in the worker: luaEngine is not closed or replaced, no handler is
\* left suspended, nothing is posted, and currentExecutionId and
\* executionStartTime keep their values.
C35_ForeignTerminateIsNoOp ==
    [][(/\ onmessage
        /\ Head(inbox).type = "terminate"
        /\ Head(inbox).id # currentExecutionId)
       => UNCHANGED <<workerVars, outbox>>]_vars

\* the one script of the workload was evaluated and timed out at the manager;
\* the terminate message that followed has been received, and the engine is
\* still the one the script was evaluated in
C35_Witness ==
    /\ Len(workload) = 1
    /\ \E id \in Allocated :
          promise[id].st = "resolved" /\ promise[id].error = ErrOuterTimeout
    /\ inbox = <<>>
    /\ worker = 1 /\ crashes = 0
    /\ handlers = {} /\ running = NoHandler
    /\ luaEngine.st = "open" /\ luaEngine.used

\* what the worker shows of an execution: the engine, the posted messages and
\* the globals of self.onmessage
RaceOutcomeVars == <<luaEngine, leaked, outbox, currentExecutionId, executionStartTime>>

\* the handlers without the mark of a late settlement
Unmarked(hs) == {[h EXCEPT !.late = FALSE] : h \in hs}

\* the inner timer of id has fired
InnerTimerGone(id) ==
    /\ now >= SubmittedAt(id) + request[id].timeout
    /\ \A t \in innerTimers : t.id # id

\* C36: the loser of the worker's timeout race has no effect.  An inner timer
\* that fires after its script has settled resets no engine, posts nothing and
\* leaves currentExecutionId, executionStartTime and every handler as they
\* are, whatever else is in flight; and a script that settles after its inner
\* timer has won changes none of these either.
C36_RaceLoserHasNoEffect ==
    /\ [][\A t \in innerTimers :
             InnerTimerFire(t) /\ ~SuspendedAtRace(t.id, handlers)
                 => UNCHANGED <<RaceOutcomeVars, handlers, running>>]_vars
    /\ [][\A h \in handlers :
             LateSettlement(h)
                 => /\ UNCHANGED <<RaceOutcomeVars, running>>
                    /\ Unmarked(handlers') = Unmarked(handlers)]_vars

\* the inner timer of a script that had succeeded has fired, and a script
\* has settled after its inner timer won
C36_Witness ==
    /\ \E a \in Allocated :
          /\ promise[a].st = "resolved" /\ promise[a].success
          /\ InnerTimerGone(a)
    /\ \E h \in handlers : h.late

====
